---- MODULE Spec2Model ----
(***************************************************************************)
(* A model of puffsAnalysis: the MATLAB-struct to numpy conversion         *)
(* (src/mat2py.py) and the command-line driver (src/puffapy.py).           *)
(*                                                                         *)
(* Paths are sequences of tokens: "/" is the separator, "." a dot, every   *)
(* other token a run of ordinary characters.  Arrays are a shape plus the  *)
(* row-major list of their elements.  The payload of field f of track t    *)
(* is the symbolic value [f |-> f, t |-> t].                               *)
(***************************************************************************)
EXTENDS Integers, Sequences, FiniteSets, TLC

\* ------------------------------------------------------------------ bounds
MaxTracks == 3
MaxParams == 3

\* ------------------------------------------------------- generic helpers
Last(s) == s[Len(s)]

EndsWith(s, suf) ==
  /\ Len(s) >= Len(suf)
  /\ SubSeq(s, Len(s) - Len(suf) + 1, Len(s)) = suf

\* index of the last occurrence of tok in s, 0 when there is none
\* (str.rfind, shifted to 1-based positions)
RFind(s, tok) ==
  LET hits == {i \in 1..Len(s) : s[i] = tok}
  IN  IF hits = {} THEN 0 ELSE CHOOSE i \in hits : \A j \in hits : j <= i

RECURSIVE RStripSep(_)
RStripSep(s) ==
  IF s # <<>> /\ Last(s) = "/" THEN RStripSep(SubSeq(s, 1, Len(s) - 1)) ELSE s

\* ----------------------------------------------------- os.path (posix)
\* op.basename: everything after the last separator
Basename(p) == SubSeq(p, RFind(p, "/") + 1, Len(p))

\* op.dirname: everything before the last separator, trailing separators
\* stripped unless the head is separators only
Dirname(p) ==
  LET head == SubSeq(p, 1, RFind(p, "/"))
  IN  IF head # <<>> /\ (\E i \in 1..Len(head) : head[i] # "/")
      THEN RStripSep(head)
      ELSE head

\* op.splitext: split at the last dot of the last component, unless only
\* dots precede it in that component
Splitext(p) ==
  LET sepIndex == RFind(p, "/")
      dotIndex == RFind(p, ".")
  IN  IF /\ dotIndex > sepIndex
         /\ \E i \in (sepIndex + 1)..(dotIndex - 1) : p[i] # "."
      THEN <<SubSeq(p, 1, dotIndex - 1), SubSeq(p, dotIndex, Len(p))>>
      ELSE <<p, <<>>>>

\* op.join of two parts
Join(a, b) ==
  IF b # <<>> /\ b[1] = "/" THEN b
  ELSE IF a = <<>> \/ Last(a) = "/" THEN a \o b
  ELSE a \o <<"/">> \o b

NpyExt == <<".", "npy">>

\* np.save(file, arr) appends the .npy extension unless already present
NpSavePath(file) == IF EndsWith(file, NpyExt) THEN file ELSE file \o NpyExt

\* the output path taken from the whole source path instead of its base name
OutputPathNoBasename(mfilepath, savedir) ==
  NpSavePath(Join(savedir, Splitext(mfilepath)[1]))

\* the file that line 34 of mat2py writes
OutputPath(mfilepath, savedir) ==
  NpSavePath(Join(savedir, Splitext(Basename(mfilepath))[1]))

\* ---------------------------------------------------------- numpy arrays
NoneVal == [kind |-> "None"]

Payload(f, t) == [f |-> f, t |-> t]

\* data = [gp1[element[0]][:] for element in gp1[p]]: one (1,1) payload per
\* track, in track order
FieldData(gp1, p) == [t \in 1..gp1.n |-> Payload(p, t)]

\* np.array(data) for a list of n payloads of shape (1,1)
NpArray(data) ==
  [kind |-> "ndarray", shape |-> <<Len(data), 1, 1>>, flat |-> data]

\* np.hstack((arr, data)): concatenation along axis 1 of (n,a,1) and (n,1,1)
Hstack(arr, data) ==
  LET n == arr.shape[1]
      a == arr.shape[2]
  IN  [kind  |-> "ndarray",
       shape |-> <<n, a + 1, 1>>,
       flat  |-> [i \in 1..(n * (a + 1)) |->
                    LET t == ((i - 1) \div (a + 1)) + 1
                        j == ((i - 1) % (a + 1)) + 1
                    IN  IF j <= a THEN arr.flat[(t - 1) * a + j] ELSE data[t]]]

\* np.squeeze: drop every axis of length one
Squeeze(arr) ==
  [arr EXCEPT !.shape = SelectSeq(arr.shape, LAMBDA d : d # 1)]

\* ndarray.transpose(): reverse the axes (arrays of at most two axes)
Transpose(arr) ==
  IF Len(arr.shape) < 2 THEN arr
  ELSE LET r == arr.shape[1]
           c == arr.shape[2]
       IN  [kind  |-> "ndarray",
            shape |-> <<c, r>>,
            flat  |-> [i \in 1..(r * c) |->
                         LET j == ((i - 1) \div r) + 1
                             t == ((i - 1) % r) + 1
                         IN  arr.flat[(t - 1) * c + j]]]

\* ','.join(params)
JoinComma(params) ==
  LET RECURSIVE J(_)
      J(s) == IF s = <<>> THEN <<>>
              ELSE IF Len(s) = 1 THEN <<s[1]>>
              ELSE <<s[1], ",">> \o J(Tail(s))
  IN  J(params)

\* names.split(',')
SplitComma(toks) ==
  LET RECURSIVE S(_, _)
      S(s, cur) ==
        IF s = <<>> THEN <<cur>>
        ELSE IF s[1] = "," THEN <<cur>> \o S(Tail(s), "")
        ELSE S(Tail(s), s[1])
  IN  IF toks = <<>> THEN <<"">> ELSE S(toks, "")

DefaultNames == <<"f0", "f1", "f2", "f3", "f4", "f5", "f6", "f7", "f8", "f9">>

\* format_parser._setfieldnames: the first nfields given names, then
\* f<i> for the positions that got none
FieldNamesFor(names, nfields) ==
  [i \in 1..nfields |->
     IF i <= Len(names) THEN names[i] ELSE DefaultNames[i]]

HasDuplicate(names) ==
  \E i, j \in 1..Len(names) : i < j /\ names[i] = names[j]

\* np.core.records.fromarrays(a, names=...) for an ndarray a: the list of
\* arrays is the iteration of a over its first axis.  The result is a record
\* array, or the name of the exception raised.
FromArrays(a, names) ==
  IF Len(a.shape) = 0 THEN [kind |-> "exc", exc |-> "TypeError"]
  ELSE
    LET nfields == a.shape[1]
        fnames  == FieldNamesFor(SplitComma(names), nfields)
    IN  IF HasDuplicate(fnames) THEN [kind |-> "exc", exc |-> "ValueError"]
        ELSE IF Len(a.shape) = 1
        THEN [kind  |-> "recarray", shape |-> <<>>, names |-> fnames,
              cols  |-> a.flat]
        ELSE [kind  |-> "recarray", shape |-> <<a.shape[2]>>, names |-> fnames,
              cols  |-> [k \in 1..nfields |->
                           [t \in 1..a.shape[2] |->
                              a.flat[(k - 1) * a.shape[2] + t]]]]

\* --------------------------------------------------------------- inputs
FieldNames == {"isPuff", "a", "b"}

\* all field lists of length lo..hi
ParamLists(lo, hi) ==
  UNION {[1..k -> FieldNames] : k \in lo..hi}

Hdf5(n, fields) ==
  [kind |-> "hdf5", tracks |-> [kind |-> "group", n |-> n, fields |-> fields]]

\* a v7.3 file without a top-level 'tracks' entry
Hdf5NoTracks == [kind |-> "hdf5", tracks |-> NoneVal]

\* a pre-v7.3 .mat file: not an HDF5 container
Legacy == [kind |-> "legacy"]

SourceContents ==
  {Hdf5(n, F) : n \in 1..MaxTracks, F \in {FieldNames, {"isPuff", "a"}}}
    \cup {Hdf5NoTracks, Legacy}

LibPaths ==
  { <<"d", "/", "x", ".", "mat">>,
    <<"d", "/", "x", ".", "npy">>,
    <<"d", "/", "x", ".", "npy", ".", "mat">>,
    <<"x", ".", "mat">> }

LibSaveDirs ==
  { <<"d">>, <<"out", "/", "deep">>, <<>>, <<"nodir">> }

TrainRaw  == <<"e", "/", "d", "/", "x", ".", "mat">>
TrainNpy  == <<"e", "/", "d", "/", "tr", ".", "npy">>
TestRaw   == <<"e", "/", "d", "/", "t", ".", "mat">>
TestNpy   == <<"e", "/", "d", "/", "te", ".", "npy">>
ClassDir  == <<"e", "/", "Classification">>
Bystander == <<"d", "/", "other", ".", "txt">>

BaseDirs ==
  { <<>>, <<"d">>, <<"out">>, <<"out", "/", "deep">>, <<"e">>, <<"e", "/", "d">> }

\* a table saved by an earlier conversion
SavedTable ==
  [kind  |-> "recarray", shape |-> <<2>>, names |-> <<"isPuff", "a">>,
   cols  |-> << <<Payload("isPuff", 1), Payload("isPuff", 2)>>,
                <<Payload("a", 1), Payload("a", 2)>> >>]

NpyFile(x) == [kind |-> "npy", table |-> x]

\* ---------------------------------------------------------------- state
VARIABLES
  fs,        \* the file system: path -> content, for the files that exist
  fs0,       \* the file system before the run
  dirs,      \* the directories that exist
  caller,    \* "lib": a direct call, "main": mat2py.py run as a script,
             \* "puffapy": puffapy.py run as a script
  mpc,       \* position inside mat2py
  mfilepath, params, savedir,   \* mat2py's arguments
  handle,    \* the h5py handle f: "none", "open" or "closed"
  gp1,       \* f.get('tracks')
  i,         \* position of the for loop in params
  arr,       \* the array under construction (NoneVal while unbound)
  x,         \* the record array of line 31
  ret,       \* mat2py's return value
  exc,       \* the exception raised inside mat2py, "none" when there is none
  out,       \* what has been printed
  writes,    \* the paths written so far, in order
  fsAtCall,  \* the file system when the running mat2py call began
  writesAtCall,  \* the number of paths written when that call began
  calls,     \* the mat2py calls made so far, in order
  ppc,       \* position inside puffapy's main block
  args,      \* puffapy's parsed arguments
  fields, train, test, psavedir,   \* puffapy's variables
  pexc,      \* the exception that ended puffapy, "none" when there is none
  rf,        \* what runRandomForests returned
  rfCalls, plotCalls,  \* the calls made to the two collaborators, in order
  absentSeen \* whether a conversion has handed puffapy the absent result

mvars == <<mpc, mfilepath, params, savedir, handle, gp1, i, arr, x, ret, exc,
           fsAtCall, writesAtCall, calls>>
pvars == <<ppc, args, fields, train, test, psavedir, pexc, rf, rfCalls,
           plotCalls, absentSeen>>
vars  == <<fs, fs0, dirs, caller, out, writes, mvars, pvars>>

Warning == "Woops, old matlab format. This will fail."

\* the state of a mat2py frame that has not been entered
IdleFrame ==
  /\ mpc = "idle"
  /\ mfilepath = <<>> /\ params = <<>> /\ savedir = <<>>
  /\ handle = "none" /\ gp1 = NoneVal /\ i = 0
  /\ arr = NoneVal /\ x = NoneVal /\ ret = NoneVal /\ exc = "none"

IdlePuffapy ==
  /\ args = NoneVal /\ fields = NoneVal /\ train = NoneVal /\ test = NoneVal
  /\ psavedir = <<>> /\ pexc = "none" /\ rf = NoneVal
  /\ rfCalls = <<>> /\ plotCalls = <<>> /\ absentSeen = FALSE

InitCommon ==
  /\ fs0 = fs
  /\ out = <<>> /\ writes = <<>> /\ calls = <<>>
  /\ fsAtCall = fs /\ writesAtCall = 0
  /\ IdleFrame
  /\ IdlePuffapy

\* the file systems a direct call or the mat2py script starts from
InitConvert ==
  /\ caller \in {"lib", "main"}
  /\ dirs = BaseDirs
  /\ \E sp \in LibPaths :
       \/ fs = (Bystander :> [kind |-> "text", lines |-> <<>>])
       \/ \E sc \in SourceContents :
            fs = (Bystander :> [kind |-> "text", lines |-> <<>>]) @@ (sp :> sc)
  /\ ppc = "none"
  /\ InitCommon

\* the file systems puffapy starts from
InitPuffapy ==
  /\ caller = "puffapy"
  /\ dirs \in {BaseDirs, BaseDirs \cup {ClassDir}}
  /\ \E sc \in SourceContents \cup {NoneVal},
        tc \in {Hdf5(2, FieldNames), Legacy, NoneVal} :
       fs = [p \in ({TrainNpy, TestNpy}
                      \cup (IF sc = NoneVal THEN {} ELSE {TrainRaw})
                      \cup (IF tc = NoneVal THEN {} ELSE {TestRaw})) |->
               IF p = TrainRaw THEN sc
               ELSE IF p = TestRaw THEN tc
               ELSE NpyFile(SavedTable)]
  /\ ppc = "parse"
  /\ InitCommon

Init == InitConvert \/ InitPuffapy

\* --------------------------------------------------------------- mat2py
\* entering mat2py(m, ps, sd)
Enter(m, ps, sd) ==
  /\ mpc' = "open"
  /\ mfilepath' = m /\ params' = ps /\ savedir' = sd
  /\ handle' = "none" /\ gp1' = NoneVal /\ i' = 0
  /\ arr' = NoneVal /\ x' = NoneVal /\ ret' = NoneVal /\ exc' = "none"
  /\ fsAtCall' = fs /\ writesAtCall' = Len(writes)
  /\ calls' = Append(calls, [mfilepath |-> m, params |-> ps, savedir |-> sd])

\* a direct call with arbitrary arguments
LibCall ==
  /\ caller = "lib" /\ mpc = "idle"
  /\ \E m \in LibPaths, ps \in ParamLists(0, MaxParams), sd \in LibSaveDirs :
       /\ m \in DOMAIN fs \/ DOMAIN fs \cap LibPaths = {}
       /\ Enter(m, ps, sd)
  /\ UNCHANGED <<fs, fs0, dirs, caller, out, writes, pvars>>

\* mat2py.py as a script: one or more fields, the destination is the
\* source's own directory
MainCall ==
  /\ caller = "main" /\ mpc = "idle"
  /\ \E m \in LibPaths, ps \in ParamLists(1, MaxParams) :
       /\ m \in DOMAIN fs \/ DOMAIN fs \cap LibPaths = {}
       /\ Enter(m, ps, Dirname(m))
  /\ UNCHANGED <<fs, fs0, dirs, caller, out, writes, pvars>>

\* raise e inside the try block
Raise(e) ==
  /\ mpc' = "except" /\ exc' = e

\* line 17-18: f = h5py.File(mfilepath, 'r'); gp1 = f.get('tracks')
Open ==
  /\ mpc = "open"
  /\ IF mfilepath \notin DOMAIN fs
     THEN Raise("FileNotFoundError") /\ UNCHANGED <<handle, gp1, i>>
     ELSE IF fs[mfilepath].kind # "hdf5"
     THEN Raise("OSError") /\ UNCHANGED <<handle, gp1, i>>
     ELSE /\ handle' = "open"
          /\ gp1' = fs[mfilepath].tracks
          /\ i' = 1
          /\ mpc' = "loop"
          /\ exc' = exc
  /\ UNCHANGED <<fs, fs0, dirs, caller, out, writes, pvars,
                 mfilepath, params, savedir, arr, x, ret, fsAtCall, writesAtCall, calls>>

\* the first parameter starts the array, every other one is stacked onto it
FirstParam(p, ps) == p = ps[1]

\* lines 20-28: one iteration of the loop over params
LoopBody ==
  /\ mpc = "loop" /\ i <= Len(params)
  /\ LET p == params[i]
     IN  IF gp1 = NoneVal
         THEN Raise("TypeError") /\ UNCHANGED <<arr, i>>
         ELSE IF p \notin gp1.fields
         THEN Raise("KeyError") /\ UNCHANGED <<arr, i>>
         ELSE /\ arr' = IF FirstParam(p, params)
                        THEN NpArray(FieldData(gp1, p))
                        ELSE Hstack(arr, FieldData(gp1, p))
              /\ i' = i + 1
              /\ UNCHANGED <<mpc, exc>>
  /\ UNCHANGED <<fs, fs0, dirs, caller, out, writes, pvars,
                 mfilepath, params, savedir, handle, gp1, x, ret, fsAtCall,
                 writesAtCall, calls>>

\* line 31: the stacked array becomes a record array
Convert ==
  /\ mpc = "loop" /\ i > Len(params)
  /\ IF arr = NoneVal
     THEN Raise("UnboundLocalError") /\ x' = x
     ELSE LET r == FromArrays(Transpose(Squeeze(arr)), JoinComma(params))
          IN  IF r.kind = "exc"
              THEN Raise(r.exc) /\ x' = x
              ELSE x' = r /\ mpc' = "close" /\ exc' = exc
  /\ UNCHANGED <<fs, fs0, dirs, caller, out, writes, pvars,
                 mfilepath, params, savedir, handle, gp1, i, arr, ret,
                 fsAtCall, writesAtCall, calls>>

\* line 33: f.close()
Close ==
  /\ mpc = "close"
  /\ handle' = "closed"
  /\ mpc' = "save"
  /\ UNCHANGED <<fs, fs0, dirs, caller, out, writes, pvars,
                 mfilepath, params, savedir, gp1, i, arr, x, ret, exc,
                 fsAtCall, writesAtCall, calls>>

\* line 34: np.save(op.join(savedir, <stem of the source name>), x)
Save ==
  /\ mpc = "save"
  /\ LET path == OutputPath(mfilepath, savedir)
     IN  IF Dirname(path) \notin dirs
         THEN Raise("FileNotFoundError") /\ UNCHANGED <<fs, writes>>
         ELSE /\ fs' = (path :> NpyFile(x)) @@ fs
              /\ writes' = Append(writes, path)
              /\ mpc' = "return"
              /\ exc' = exc
  /\ UNCHANGED <<fs0, dirs, caller, out, pvars,
                 mfilepath, params, savedir, handle, gp1, i, arr, x, ret,
                 fsAtCall, writesAtCall, calls>>

\* line 35: return x
Return ==
  /\ mpc = "return"
  /\ ret' = x
  /\ mpc' = "done"
  /\ UNCHANGED <<fs, fs0, dirs, caller, out, writes, pvars,
                 mfilepath, params, savedir, handle, gp1, i, arr, x, exc,
                 fsAtCall, writesAtCall, calls>>

\* an except clause that names the subclass only
IsOSErrorNarrow(e) == e = "FileNotFoundError"

\* the exceptions that 'except OSError' matches
IsOSError(e) == e \in {"OSError", "FileNotFoundError"}

\* lines 37-39: the except clause, or the exception leaving mat2py
Except ==
  /\ mpc = "except"
  /\ IF IsOSError(exc)
     THEN /\ out' = Append(out, Warning)
          /\ ret' = NoneVal
          /\ exc' = "none"
          /\ mpc' = "done"
     ELSE /\ mpc' = "raised"
          /\ UNCHANGED <<out, ret, exc>>
  /\ UNCHANGED <<fs, fs0, dirs, caller, writes, pvars,
                 mfilepath, params, savedir, handle, gp1, i, arr, x,
                 fsAtCall, writesAtCall, calls>>

Mat2py == Open \/ LoopBody \/ Convert \/ Close \/ Save \/ Return \/ Except

\* -------------------------------------------------------------- puffapy
\* Python subscript: position j of a list, counted from 0
At(seq, j) == seq[j + 1]

Rankings(n) ==
  {q \in [1..n -> 0..(n - 1)] : \A a, b \in 1..n : a # b => q[a] # q[b]}

\* op.join(op.dirname(op.dirname(path)), 'Classification')
ClassificationDir(path) == Join(Dirname(Dirname(path)), <<"Classification">>)

\* the field check without its length test
TooFewFieldsEmptyOnly(fl) == fl = <<>>

\* line 24: not args.fields or len(args.fields) <= 1
TooFewFields(fl) == fl = <<>> \/ Len(fl) <= 1

\* np.load
NpLoad(path) ==
  IF path \notin DOMAIN fs THEN [kind |-> "exc", exc |-> "FileNotFoundError"]
  ELSE IF fs[path].kind # "npy" THEN [kind |-> "exc", exc |-> "ValueError"]
  ELSE fs[path].table

\* np.array(v): a copy of an array, a 0-d object array around None
NpCopy(v) ==
  IF v = NoneVal
  THEN [kind |-> "ndarray", shape |-> <<>>, flat |-> <<NoneVal>>]
  ELSE v

\* a tolist that every value answers
HasToListAlways(v) == TRUE

\* whether v.tolist() can be called: None has no such attribute
HasToList(v) == v # NoneVal

\* np.array(v.tolist()): a record array of n records of k fields becomes an
\* (n,k) array, a single record of k fields a (k,) array
ToListArray(v) ==
  IF v.kind # "recarray" THEN v
  ELSE IF v.shape = <<>>
  THEN [kind |-> "ndarray", shape |-> <<Len(v.names)>>, flat |-> v.cols]
  ELSE LET n == v.shape[1]
           k == Len(v.names)
       IN  [kind  |-> "ndarray",
            shape |-> <<n, k>>,
            flat  |-> [j \in 1..(n * k) |->
                         v.cols[((j - 1) % k) + 1][((j - 1) \div k) + 1]]]

\* the feature index used as a position in fields without the shift
ImportancePosUnshifted(idx) == idx

\* line 60: the position in fields of the feature with index idx
ImportancePos(idx) == idx + 1

\* fields[1:]
FeatureNames(fl) == SubSeq(fl, 2, Len(fl))

\* the lines that lines 52-60 append to notes.txt
NotesLines ==
  << [tag |-> "built", training |-> args.training],
     [tag |-> "params", names |-> FeatureNames(fields)],
     [tag |-> "puffs"], [tag |-> "nonpuffs"], [tag |-> "maybe"],
     [tag |-> "oob"], [tag |-> "importances"] >>
  \o [f \in 1..(Len(fields) - 1) |->
        LET idx == At(rf.indices, f - 1)
        IN  [tag  |-> "importance",
             rank |-> f,
             pos  |-> ImportancePos(idx),
             name |-> At(fields, ImportancePos(idx)),
             imp  |-> At(rf.importances, idx)]]

NotesPath == Join(psavedir, <<"notes", ".", "txt">>)

\* the end of the run by an uncaught exception
Die(e) == ppc' = "raised" /\ pexc' = e

\* lines 10-15: the command line
ParseArgs ==
  /\ caller = "puffapy" /\ ppc = "parse"
  /\ \E tr \in {TrainRaw, TrainNpy}, fl \in ParamLists(0, MaxParams),
        te \in {<<>>, TestRaw, TestNpy} :
       args' = [training |-> tr, fields |-> fl, testing |-> te]
  /\ ppc' = "dirs"
  /\ UNCHANGED <<fs, fs0, dirs, caller, out, writes, mvars,
                 fields, train, test, psavedir, pexc, rf, rfCalls, plotCalls,
                 absentSeen>>

\* lines 17-18
SetDirs ==
  /\ ppc = "dirs"
  /\ psavedir' = ClassificationDir(args.training)
  /\ ppc' = "train"
  /\ UNCHANGED <<fs, fs0, dirs, caller, out, writes, mvars,
                 args, fields, train, test, pexc, rf, rfCalls, plotCalls,
                 absentSeen>>

\* lines 20-29: the training table is loaded, or converted from the raw
\* source after the field list has been checked
LoadTrain ==
  /\ ppc = "train"
  /\ IF EndsWith(args.training, NpyExt)
     THEN LET t == NpLoad(args.training)
          IN  /\ IF t.kind = "exc"
                 THEN Die(t.exc) /\ UNCHANGED <<train, fields>>
                 ELSE /\ train' = t
                      /\ fields' = t.names
                      /\ ppc' = "testing"
                      /\ pexc' = pexc
              /\ UNCHANGED mvars
     ELSE IF TooFewFields(args.fields)
     THEN Die("ValueError") /\ UNCHANGED <<train, fields, mvars>>
     ELSE /\ fields' = args.fields
          /\ Enter(args.training, args.fields,
                   ClassificationDir(args.training))
          /\ ppc' = "trainCall"
          /\ UNCHANGED <<train, pexc>>
  /\ UNCHANGED <<fs, fs0, dirs, caller, out, writes,
                 args, test, psavedir, rf, rfCalls, plotCalls,
                 absentSeen>>

\* line 29: the call returns, or its exception ends the run
TrainReturn ==
  /\ ppc = "trainCall" /\ mpc \in {"done", "raised"}
  /\ IF mpc = "raised"
     THEN Die(exc) /\ UNCHANGED <<train, absentSeen>>
     ELSE /\ train' = ret
          /\ absentSeen' = (absentSeen \/ ret = NoneVal)
          /\ ppc' = "testing"
          /\ pexc' = pexc
  /\ mpc' = "idle"
  /\ UNCHANGED <<fs, fs0, dirs, caller, out, writes,
                 mfilepath, params, savedir, handle, gp1, i, arr, x, ret, exc,
                 fsAtCall, writesAtCall, calls,
                 args, fields, test, psavedir, rf, rfCalls, plotCalls>>

\* lines 31-39: the testing table is loaded, converted, or copied from the
\* training table
LoadTest ==
  /\ ppc = "testing"
  /\ IF args.testing # <<>>
     THEN IF EndsWith(args.testing, NpyExt)
          THEN LET t == NpLoad(args.testing)
               IN  /\ IF t.kind = "exc"
                      THEN Die(t.exc) /\ UNCHANGED <<test, psavedir>>
                      ELSE /\ test' = t
                           /\ psavedir' = ClassificationDir(args.testing)
                           /\ ppc' = "tolist"
                           /\ pexc' = pexc
                   /\ UNCHANGED mvars
          ELSE /\ Enter(args.testing, fields, ClassificationDir(args.testing))
               /\ ppc' = "testCall"
               /\ UNCHANGED <<test, psavedir, pexc>>
     ELSE /\ test' = NpCopy(train)
          /\ ppc' = "tolist"
          /\ UNCHANGED <<psavedir, pexc, mvars>>
  /\ UNCHANGED <<fs, fs0, dirs, caller, out, writes,
                 args, fields, train, rf, rfCalls, plotCalls,
                 absentSeen>>

\* lines 36-37: the call returns, or its exception ends the run
TestReturn ==
  /\ ppc = "testCall" /\ mpc \in {"done", "raised"}
  /\ IF mpc = "raised"
     THEN Die(exc) /\ UNCHANGED <<test, psavedir, absentSeen>>
     ELSE /\ test' = ret
          /\ absentSeen' = (absentSeen \/ ret = NoneVal)
          /\ psavedir' = ClassificationDir(args.testing)
          /\ ppc' = "tolist"
          /\ pexc' = pexc
  /\ mpc' = "idle"
  /\ UNCHANGED <<fs, fs0, dirs, caller, out, writes,
                 mfilepath, params, savedir, handle, gp1, i, arr, x, ret, exc,
                 fsAtCall, writesAtCall, calls,
                 args, fields, train, rf, rfCalls, plotCalls>>

\* lines 41-42
ToList ==
  /\ ppc = "tolist"
  /\ IF ~HasToList(train) \/ ~HasToList(test)
     THEN Die("AttributeError") /\ UNCHANGED <<train, test>>
     ELSE /\ train' = ToListArray(train)
          /\ test' = ToListArray(test)
          /\ ppc' = "rf"
          /\ pexc' = pexc
  /\ UNCHANGED <<fs, fs0, dirs, caller, out, writes, mvars,
                 args, fields, psavedir, rf, rfCalls, plotCalls,
                 absentSeen>>

\* rf.feature_importances_ as runRandomForests leaves it: one importance
\* for every field but the label
FeatureImportances(fl) == [1..(Len(fl) - 1) -> 0..1]

\* lines 44-49: the classifier is run; its importances, one per feature,
\* are ranked in decreasing order
RunRandomForests ==
  /\ ppc = "rf"
  /\ rfCalls' = Append(rfCalls, [train |-> train, test |-> test,
                                 savedir |-> psavedir])
  /\ \E imp \in FeatureImportances(fields) :
       \E ind \in Rankings(Len(fields) - 1) :
         /\ \A a, b \in 1..(Len(fields) - 1) :
              a < b => At(imp, ind[a]) >= At(imp, ind[b])
         /\ rf' = [importances |-> imp, indices |-> ind]
  /\ ppc' = "notes"
  /\ UNCHANGED <<fs, fs0, dirs, caller, out, writes, mvars,
                 args, fields, train, test, psavedir, pexc, plotCalls,
                 absentSeen>>

\* lines 51-61: the summary is appended to notes.txt
WriteNotes ==
  /\ ppc = "notes"
  /\ IF psavedir \notin dirs
     THEN Die("FileNotFoundError") /\ UNCHANGED <<fs, writes>>
     ELSE /\ fs' = (NotesPath :>
                      [kind  |-> "text",
                       lines |-> (IF NotesPath \in DOMAIN fs
                                  THEN fs[NotesPath].lines ELSE <<>>)
                                 \o NotesLines]) @@ fs
          /\ writes' = Append(writes, NotesPath)
          /\ ppc' = "plot"
          /\ pexc' = pexc
  /\ UNCHANGED <<fs0, dirs, caller, out, mvars,
                 args, fields, train, test, psavedir, rf, rfCalls, plotCalls,
                 absentSeen>>

\* line 63
PlotRandomForests ==
  /\ ppc = "plot"
  /\ plotCalls' = Append(plotCalls, [fields  |-> FeatureNames(fields),
                                     savedir |-> psavedir])
  /\ ppc' = "done"
  /\ UNCHANGED <<fs, fs0, dirs, caller, out, writes, mvars,
                 args, fields, train, test, psavedir, pexc, rf, rfCalls,
                 absentSeen>>

Puffapy ==
  \/ ParseArgs \/ SetDirs \/ LoadTrain \/ TrainReturn \/ LoadTest
  \/ TestReturn \/ ToList \/ RunRandomForests \/ WriteNotes
  \/ PlotRandomForests

Next == LibCall \/ MainCall \/ Mat2py \/ Puffapy

Spec == Init /\ [][Next]_vars

\* ------------------------------------------------------------ properties
Finished == mpc \in {"done", "raised"}

\* the running call reads a v7.3 container that has a 'tracks' group
SourceIsContainer ==
  /\ mfilepath \in DOMAIN fsAtCall
  /\ fsAtCall[mfilepath].kind = "hdf5"
  /\ fsAtCall[mfilepath].tracks.kind = "group"

SourceIsLegacy ==
  /\ mfilepath \in DOMAIN fsAtCall
  /\ fsAtCall[mfilepath].kind = "legacy"

SourceTracks == fsAtCall[mfilepath].tracks

\* a non-empty field list whose names all exist under 'tracks', and a
\* destination that can be written
ValidCall ==
  /\ SourceIsContainer
  /\ params # <<>>
  /\ \A j \in 1..Len(params) : params[j] \in SourceTracks.fields
  /\ savedir \in dirs

\* the table of n rows whose column j is named ps[j] and holds field ps[j]
IsTableOf(tb, n, ps) ==
  /\ tb.kind = "recarray"
  /\ tb.shape = <<n>>
  /\ tb.names = ps
  /\ \A j \in 1..Len(ps) :
       tb.cols[j] = [t \in 1..n |-> Payload(ps[j], t)]

Succeeded == mpc = "done" /\ ret # NoneVal

\* C1: every call on a readable container with N tracks and a non-empty list
\* of K existing field names returns a table of N rows and K columns, column
\* i named params[i] and holding that field's payloads in track order.
C1_TableShapeAndOrder ==
  (Finished /\ ValidCall)
    => (Succeeded /\ IsTableOf(ret, SourceTracks.n, params))

\* C2: on a legacy source mat2py prints the warning, returns None instead of
\* raising, and has written nothing when it returns.
C2_LegacyAbsentResult ==
  (mpc # "idle" /\ SourceIsLegacy)
    => /\ mpc # "raised"
       /\ fs = fsAtCall
       /\ Len(writes) = writesAtCall
       /\ mpc = "done" => (ret = NoneVal /\ exc = "none"
                           /\ out # <<>> /\ Last(out) = Warning)

C2_Witness ==
  /\ mpc = "done" /\ SourceIsLegacy /\ ret = NoneVal
  /\ out # <<>> /\ Last(out) = Warning

\* C3: only the legacy-format failure ends in the warning and the absent
\* result; every other failure leaves mat2py as an exception.
C3_OnlyLegacyCaught ==
  (mpc = "done" /\ ret = NoneVal) => SourceIsLegacy

\* C4: once the container has been opened, the handle is closed whenever
\* mat2py is writing the output file or has finished, however it finishes.
C4_HandleClosed ==
  (handle # "none" /\ mpc \in {"save", "done", "raised"})
    => handle = "closed"

\* C5: no call of mat2py modifies the file at the source path.
C5_SourceUntouched ==
  (mpc # "idle" /\ mfilepath \in DOMAIN fsAtCall)
    => (mfilepath \in DOMAIN fs /\ fs[mfilepath] = fsAtCall[mfilepath])

\* the paths whose content differs between two file systems
Changed(f, g) ==
  {q \in DOMAIN f \cup DOMAIN g :
     ~(q \in DOMAIN f /\ q \in DOMAIN g /\ f[q] = g[q])}

SourceStem == Splitext(Basename(mfilepath))[1]

\* the frame of a successful call whose output file is named name
WritesOnly(name) ==
  LET path == Join(savedir, name)
  IN  /\ SubSeq(writes, writesAtCall + 1, Len(writes)) = <<path>>
      /\ Basename(path) = name
      /\ Dirname(path) = savedir
      /\ path \in DOMAIN fs
      /\ fs[path] = NpyFile(ret)
      /\ Changed(fs, fsAtCall) \subseteq {path}

\* C6 as claimed: a successful call writes exactly one file, directly in the
\* destination directory, named as the source's base name with its extension
\* replaced by .npy, and changes nothing else.
C6_OneFileExtensionReplaced ==
  Succeeded => WritesOnly(SourceStem \o NpyExt)

\* C6 as amended: a successful call writes exactly one file, directly in the
\* destination directory, named as the source's base name without its
\* extension, with .npy appended unless that name already ends in .npy, and
\* changes nothing else.
C6_OneFileStemNpy ==
  Succeeded =>
    WritesOnly(IF EndsWith(SourceStem, NpyExt)
               THEN SourceStem ELSE SourceStem \o NpyExt)

C6_Witness ==
  /\ Succeeded
  /\ EndsWith(SourceStem, NpyExt)
  /\ savedir # Dirname(mfilepath)
  /\ Len(writes) = writesAtCall + 1

\* C7: a call with exactly one existing field name does not fail; it returns
\* the one-column table of N rows and writes it to the output file.
C7_SingleField ==
  (Finished /\ ValidCall /\ Len(params) = 1)
    => /\ Succeeded
       /\ IsTableOf(ret, SourceTracks.n, params)
       /\ OutputPath(mfilepath, savedir) \in DOMAIN fs
       /\ fs[OutputPath(mfilepath, savedir)] = NpyFile(ret)

RawTraining == args # NoneVal /\ ~EndsWith(args.training, NpyExt)

\* C8: with a raw training input and fewer than two fields the run is
\* rejected before any conversion: mat2py is never called, nothing is
\* written, and neither collaborator is invoked.
C8_RejectedBeforeConversion ==
  (RawTraining /\ Len(args.fields) < 2)
    => /\ calls = <<>>
       /\ fs = fs0 /\ writes = <<>>
       /\ rfCalls = <<>> /\ plotCalls = <<>>
       /\ ppc \in {"dirs", "train", "raised"}
       /\ ppc = "raised" => pexc = "ValueError"

C8_Witness ==
  /\ RawTraining /\ Len(args.fields) = 1
  /\ ppc = "raised" /\ pexc = "ValueError"

IsNotes(q) == Basename(q) = <<"notes", ".", "txt">>

\* C9: once a conversion has returned the absent result, runRandomForests is
\* never called, nothing is appended to notes.txt and plotRandomForests is
\* never called.
C9_NoClassificationAfterAbsent ==
  absentSeen
    => /\ rfCalls = <<>> /\ plotCalls = <<>>
       /\ \A q \in DOMAIN fs : IsNotes(q) => (q \in DOMAIN fs0 /\ fs[q] = fs0[q])
       /\ ppc \notin {"rf", "notes", "plot", "done"}

C9_Witness ==
  /\ absentSeen /\ ppc = "raised" /\ pexc = "AttributeError"
  /\ Len(calls) = 2

\* C10: the label, position 0 of the field list, is never treated as a
\* feature: the 'Params used' line, the K-1 importance lines and the names
\* given to plotRandomForests are positions 1..K-1, and the importance line
\* of a feature names the field at position (feature index + 1).
C10_LabelNeverAFeature ==
  (ppc \in {"plot", "done"} /\ Len(fields) >= 2)
    => LET K     == Len(fields)
           lines == fs[NotesPath].lines
           new   == SubSeq(lines, Len(lines) - (K + 5), Len(lines))
           feats == [j \in 1..(K - 1) |-> At(fields, j)]
       IN  /\ new[2].tag = "params" /\ new[2].names = feats
           /\ \A f \in 0..(K - 2) :
                LET ln == new[8 + f]
                IN  /\ ln.tag = "importance"
                    /\ ln.rank = f + 1
                    /\ ln.pos \in 1..(K - 1)
                    /\ ln.pos = At(rf.indices, f) + 1
                    /\ ln.name = At(fields, At(rf.indices, f) + 1)
           /\ ppc = "done" => Last(plotCalls).fields = feats

C10_Witness ==
  /\ ppc = "done" /\ Len(fields) = 3
  /\ rf.indices = <<1, 0>>
  /\ fields[1] # fields[2]

====
